---------------------------- MODULE Spec2Model ----------------------------
(***************************************************************************)
(* A model of omw_shuffle_ingredients.py: the TES3 record codec            *)
(* (packPaddedString, packINGR, packTES3, readRecords, parseINGR), the     *)
(* effect shuffle (shuffle_ingredients) and the pipeline of main.          *)
(*                                                                         *)
(* Python objects are modelled as a heap: ilist is the list of parsed      *)
(* ingredient records, a dictionary keyed by id is the sequence of the     *)
(* heap indices of its values in insertion order, and an in-place update   *)
(* of a record is an update of ilist.  Bytes are integers 0..255, a        *)
(* Python str handled by main is a sequence of one-character strings, a    *)
(* str handed to the codec is the sequence of its ASCII codes.             *)
(***************************************************************************)
EXTENDS Integers, Sequences, FiniteSets, TLC

VARIABLES
    pc,                   \* position in the running function
    caller,               \* who called shuffle_ingredients: "test", "foods", "nonfoods"
    ilist,                \* heap of parsed INGR records (main: ilist)
    tes3list,             \* parsed TES3 records: each a sequence of (master, size)
    levclist,             \* parsed LEVC records: [name, items]
    master_list,          \* main: master_list
    foodset,              \* main: foodset
    ingrs_by_id,          \* main: ingrs_by_id (dict as ordered heap indices)
    dupe_ingrs,           \* main: dupe_ingrs: sequence of [anchor, dupes]
    foods_by_id,          \* main: foods_by_id
    nonfoods_by_id,       \* main: nonfoods_by_id
    shuffled_ingredients, \* main: shuffled_ingredients
    outfile,              \* what main writes: header fields and INGR records
    ingredients,          \* shuffle_ingredients: the argument dictionary
    final_ingredients,    \* shuffle_ingredients: final_ingredients
    effect_lists,         \* shuffle_ingredients: effect_lists
    ingr_array,           \* shuffle_ingredients: ingr_array
    round,                \* shuffle_ingredients: i of the loop of line 429
    arg,                  \* codec: the argument of the function under study
    res,                  \* codec: its result
    fh,                   \* readRecords: the open file, [data, pos]
    yielded               \* readRecords: the records yielded so far

mainVars == <<tes3list, levclist, master_list, foodset, ingrs_by_id, dupe_ingrs,
              foods_by_id, nonfoods_by_id, shuffled_ingredients, outfile>>
shuffleVars == <<ingredients, final_ingredients, effect_lists, ingr_array, round>>
codecVars == <<arg, res, fh, yielded>>
vars == <<pc, caller, ilist, mainVars, shuffleVars, codecVars>>

(***************************************************************************)
(* Bounds of the model.                                                    *)
(***************************************************************************)
MaxIngr == 3      \* ingredients in the map handed to one shuffle_ingredients call
MaxRecs == 3      \* INGR records read by main
MaxLists == 2     \* LEVC records read by main
MaxHdrs == 2      \* TES3 records read by main

(***************************************************************************)
(* Generic helpers.                                                        *)
(***************************************************************************)
Range(s) == {s[k] : k \in 1..Len(s)}

Min(a, b) == IF a < b THEN a ELSE b

RECURSIVE Concat(_)
Concat(ss) == IF ss = <<>> THEN <<>> ELSE Head(ss) \o Concat(Tail(ss))

RECURSIVE SeqSum(_)
SeqSum(s) == IF s = <<>> THEN 0 ELSE Head(s) + SeqSum(Tail(s))

\* All sequences over S of length 0..n.
SeqsUpTo(S, n) == UNION {[1..k -> S] : k \in 0..n}

\* All orders of the elements of the sequence s: what random.shuffle can leave.
Shuffles(s) ==
    {[k \in 1..Len(s) |-> s[p[k]]] :
        p \in {q \in [1..Len(s) -> 1..Len(s)] :
                 \A a, b \in 1..Len(s) : q[a] = q[b] => a = b}}

\* Python's  sub in s  for str.
Contains(s, sub) ==
    \E k \in 0..(Len(s) - Len(sub)) : SubSeq(s, k + 1, k + Len(sub)) = sub


(***************************************************************************)
(* Python dictionaries: a sequence of <<key, value>> in insertion order.   *)
(***************************************************************************)
Keys(d) == [k \in 1..Len(d) |-> d[k][1]]

Values(d) == [k \in 1..Len(d) |-> d[k][2]]

HasKey(d, key) == \E k \in 1..Len(d) : d[k][1] = key

Lookup(d, key) == d[CHOOSE k \in 1..Len(d) : d[k][1] = key][2]

\* d[key] = val: a new key goes last, a known key keeps its place.
DictSet(d, key, val) ==
    IF HasKey(d, key)
    THEN [k \in 1..Len(d) |-> IF d[k][1] = key THEN <<key, val>> ELSE d[k]]
    ELSE Append(d, <<key, val>>)

\* del d[key] for each key of the set ks.
DictDel(d, ks) ==
    LET keep(e) == e[1] \notin ks IN SelectSeq(d, keep)

\* for (key, val) in pairs: d[key] = val
RECURSIVE DictSetAll(_, _)
DictSetAll(d, pairs) ==
    IF pairs = <<>> THEN d
    ELSE DictSetAll(DictSet(d, Head(pairs)[1], Head(pairs)[2]), Tail(pairs))

\* for (key, val) in pairs: append val to d[key], or start d[key] = [val]
RECURSIVE GroupAll(_, _)
GroupAll(d, pairs) ==
    IF pairs = <<>> THEN d
    ELSE LET key == Head(pairs)[1]
             val == Head(pairs)[2]
             d2 == IF HasKey(d, key)
                   THEN DictSet(d, key, Append(Lookup(d, key), val))
                   ELSE DictSet(d, key, <<val>>)
         IN GroupAll(d2, Tail(pairs))

(***************************************************************************)
(* Parsed ingredient records and their effect slots.  A slot is the tuple  *)
(* (effect, skill, attribute) parseINGR builds.                            *)
(***************************************************************************)
NoEffect == <<-1, -1, -1>>
E0 == <<0, -1, -1>>
E5 == <<5, -1, -1>>
E7 == <<7, -1, -1>>
E17 == <<17, -1, 2>>
E21 == <<21, 3, -1>>

Slots == 1..4

\* The record parseINGR returns, as main and shuffle_ingredients use it.
IngrRec(id, model, name, icon, script, weight, value, effects, file) ==
    [id |-> id, model |-> model, name |-> name, icon |-> icon,
     script |-> script, weight |-> weight, value |-> value,
     effects_hash |-> effects, effects |-> effects, file |-> file]

\* The dictionary of the heap objects objs, keyed by id.
ById(heap, objs) == [k \in 1..Len(objs) |-> <<heap[objs[k]].id, objs[k]>>]

(***************************************************************************)
(* shuffle_ingredients                                                     *)
(***************************************************************************)
\* lines 392-395: the test that takes an ingredient out before the shuffle
IsInert(ingr) == \A i \in Slots : ingr.effects[i][1] < 0

\* lines 389-396: final_ingredients after the first loop
InertOnes(heap, ingrs) ==
    LET inert(e) == IsInert(heap[e[2]]) IN SelectSeq(ingrs, inert)

\* the deletion of lines 398-399 left out
WithoutInertKept(heap, ingrs) == ingrs

\* lines 398-399: ingredients after the inert ones are deleted
WithoutInert(heap, ingrs) ==
    DictDel(ingrs, Range(Keys(InertOnes(heap, ingrs))))

\* lines 416-419: effect_lists[i]
EffectList(heap, ingrs, i) ==
    LET active(e) == heap[e[2]].effects[i][1] > 0
        src == SelectSeq(ingrs, active)
    IN [k \in 1..Len(src) |-> heap[src[k][2]].effects[i]]

\* lines 432-433: the heap after ingr_array[j]['effects'][i] = effect_lists[i][j]
\* for j = 0..n-1
Assigned(heap, arr, list, i, n) ==
    [k \in DOMAIN heap |->
        IF \E j \in 1..n : arr[j] = k
        THEN [heap[k] EXCEPT !.effects[i] =
                  list[CHOOSE j \in 1..n : arr[j] = k]]
        ELSE heap[k]]

\* lines 389-399
sh_RemoveInert ==
    /\ pc = "sh_inert"
    /\ final_ingredients' = InertOnes(ilist, ingredients)
    /\ ingredients' = WithoutInert(ilist, ingredients)
    \* the argument is the caller's dictionary itself: the deletion shows there
    /\ foods_by_id' = IF caller = "foods" THEN ingredients' ELSE foods_by_id
    /\ nonfoods_by_id' = IF caller = "nonfoods" THEN ingredients' ELSE nonfoods_by_id
    /\ pc' = "sh_pools"
    /\ UNCHANGED <<caller, ilist, tes3list, levclist, master_list, foodset,
                   ingrs_by_id, dupe_ingrs, shuffled_ingredients, outfile,
                   effect_lists, ingr_array, round, codecVars>>

\* lines 415-427
sh_BuildPools ==
    /\ pc = "sh_pools"
    /\ effect_lists' = [i \in Slots |-> EffectList(ilist, ingredients, i)]
    /\ ingr_array' = Values(ingredients)
    /\ round' = 0
    /\ pc' = "sh_round"
    /\ UNCHANGED <<caller, ilist, mainVars, ingredients, final_ingredients, codecVars>>

\* lines 429-437, one pass of the loop that runs to its end
sh_Round ==
    /\ pc = "sh_round"
    /\ round < 4
    /\ \E arr \in Shuffles(ingr_array) :
          LET list == effect_lists[round + 1]
              total_effects == Len(list)
          IN /\ total_effects <= Len(arr)
             /\ ilist' = Assigned(ilist, arr, list, round + 1, total_effects)
             /\ final_ingredients' =
                   DictSetAll(final_ingredients,
                              ById(ilist, SubSeq(arr, total_effects + 1, Len(arr))))
             /\ ingr_array' = SubSeq(arr, 1, total_effects)
    /\ round' = round + 1
    /\ UNCHANGED <<pc, caller, mainVars, ingredients, effect_lists, codecVars>>

\* lines 429-433, a pass in which ingr_array[j] raises IndexError: the
\* assignments made before it stay
sh_RoundIndexError ==
    /\ pc = "sh_round"
    /\ round < 4
    /\ \E arr \in Shuffles(ingr_array) :
          LET list == effect_lists[round + 1]
          IN /\ Len(list) > Len(arr)
             /\ ilist' = Assigned(ilist, arr, list, round + 1, Len(arr))
             /\ ingr_array' = arr
    /\ pc' = "crashed"
    /\ UNCHANGED <<caller, mainVars, ingredients, final_ingredients, effect_lists,
                   round, codecVars>>

\* the loop of lines 442-443 left out: what is left in ingr_array is not put
\* in final_ingredients
sh_ReturnWithoutRest ==
    /\ pc = "sh_round"
    /\ round = 4
    /\ pc' = "sh_returned"
    /\ UNCHANGED <<caller, ilist, mainVars, shuffleVars, codecVars>>

\* lines 442-445
sh_Return ==
    /\ pc = "sh_round"
    /\ round = 4
    /\ final_ingredients' = DictSetAll(final_ingredients, ById(ilist, ingr_array))
    /\ pc' = "sh_returned"
    /\ UNCHANGED <<caller, ilist, mainVars, ingredients, effect_lists, ingr_array,
                   round, codecVars>>

ShuffleNext ==
    \/ sh_RemoveInert
    \/ sh_BuildPools
    \/ sh_Round
    \/ sh_RoundIndexError
    \/ sh_Return

(***************************************************************************)
(* One call of shuffle_ingredients on a map of up to MaxIngr ingredients.  *)
(***************************************************************************)
Letters == <<"a", "b", "c", "d", "e", "f">>

Profiles ==
    { <<NoEffect, NoEffect, NoEffect, NoEffect>>,
      <<E5, NoEffect, NoEffect, NoEffect>>,
      <<NoEffect, E7, NoEffect, NoEffect>>,
      <<E17, E21, NoEffect, NoEffect>>,
      <<E0, NoEffect, NoEffect, NoEffect>>,
      <<E7, E5, E21, E17>> }

NullMain ==
    /\ tes3list = <<>>
    /\ levclist = <<>>
    /\ master_list = <<>>
    /\ foodset = {}
    /\ ingrs_by_id = <<>>
    /\ dupe_ingrs = <<>>
    /\ foods_by_id = <<>>
    /\ nonfoods_by_id = <<>>
    /\ shuffled_ingredients = <<>>
    /\ outfile = <<>>

NullShuffle ==
    /\ ingredients = <<>>
    /\ final_ingredients = <<>>
    /\ effect_lists = <<>>
    /\ ingr_array = <<>>
    /\ round = 0

NullCodec ==
    /\ arg = <<>>
    /\ res = <<>>
    /\ fh = <<>>
    /\ yielded = <<>>

ShuffleInit ==
    /\ pc = "sh_inert"
    /\ caller = "test"
    /\ \E n \in 1..MaxIngr : \E ps \in [1..n -> Profiles] :
          ilist = [k \in 1..n |->
                     IngrRec(<<"i", Letters[k]>>, "m.nif", <<"n">>, "i.tga", <<>>,
                             "1.0", k, ps[k], "a.esp")]
    /\ ingredients = ById(ilist, [k \in 1..Len(ilist) |-> k])
    /\ final_ingredients = <<>>
    /\ effect_lists = <<>>
    /\ ingr_array = <<>>
    /\ round = 0
    /\ NullMain
    /\ NullCodec

SpecShuffle == ShuffleInit /\ [][ShuffleNext]_vars

(***************************************************************************)
(* main                                                                    *)
(***************************************************************************)
sfood == <<"f", "o", "o", "d">>
sFood == <<"F", "o", "o", "d">>

\* the test with its second spelling forgotten
HasFoodMarkerLowerOnly(s) == Contains(s, sfood)

\* lines 483 and 540-541: the test for a food marker in a name or an id
HasFoodMarker(s) == Contains(s, sfood) \/ Contains(s, sFood)

\* the first declaration of a master kept instead of the last
MasterListFirstWins(tes3) ==
    LET decls == Concat(tes3)
        firstOf(k) == \A j \in 1..(k - 1) : decls[j][1] # decls[k][1]
    IN SelectSeq([k \in 1..Len(decls) |-> IF firstOf(k) THEN decls[k] ELSE <<>>],
                 LAMBDA e : e # <<>>)

\* lines 467-472: master_list
MasterList(tes3) == DictSetAll(<<>>, Concat(tes3))

\* lines 481-485: foodset
FoodSet(levcs) ==
    UNION {Range(levcs[k].items) : k \in {j \in 1..Len(levcs) : HasFoodMarker(levcs[j].name)}}

\* the first record of an id kept instead of the last
FirstById(heap) ==
    LET firstOf(k) == \A j \in 1..(k - 1) : heap[j].id # heap[k].id
        objs == SelectSeq([k \in 1..Len(heap) |-> k], firstOf)
    IN ById(heap, objs)

\* lines 494-496: ingrs_by_id
UniqueById(heap) == DictSetAll(<<>>, ById(heap, [k \in 1..Len(heap) |-> k]))

\* lines 505-510: ingrs_by_model
ByModel(heap, byid) ==
    GroupAll(<<>>, [k \in 1..Len(byid) |-> <<heap[byid[k][2]].model, byid[k][2]>>])

\* lines 517-522: by_effect of one ingrlist
ByEffect(heap, ingrlist) ==
    GroupAll(<<>>, [k \in 1..Len(ingrlist) |->
                       <<heap[ingrlist[k]].effects_hash, ingrlist[k]>>])

\* lines 513-525: every dupelist of more than one ingredient, in the order met
DupeLists(heap, byid) ==
    LET bymodel == Values(ByModel(heap, byid))
        many(l) == Len(l) > 1
        perModel == [k \in 1..Len(bymodel) |->
                       IF Len(bymodel[k]) > 1
                       THEN SelectSeq(Values(ByEffect(heap, bymodel[k])), many)
                       ELSE <<>>]
    IN Concat(perModel)

\* lines 527-529: dupe_ingrs
DupeIngrs(heap, byid) ==
    LET dl == DupeLists(heap, byid)
    IN DictSetAll(<<>>, [k \in 1..Len(dl) |-> <<heap[dl[k][1]].id, Tail(dl[k])>>])

\* lines 531-532: ingrs_by_id without the stashed dupes
WithoutDupes(heap, byid) ==
    LET dl == DupeLists(heap, byid)
    IN DictDel(byid, {heap[o].id : o \in UNION {Range(Tail(dl[k])) : k \in 1..Len(dl)}})

\* lines 540-541: the ingredient goes to foods_by_id
IsFood(ingr, fset) == ingr.id \in fset \/ HasFoodMarker(ingr.id)

\* the dupes put back without their anchor's effects
ReAddedHeapNoCopy(heap, shuffled, dupes) == heap

\* lines 553-556, the heap: each dupe takes its anchor's effects
ReAddedHeap(heap, shuffled, dupes) ==
    [k \in DOMAIN heap |->
        IF \E d \in 1..Len(dupes) : k \in Range(dupes[d][2])
        THEN LET d == CHOOSE d \in 1..Len(dupes) : k \in Range(dupes[d][2])
             IN [heap[k] EXCEPT !.effects = heap[Lookup(shuffled, dupes[d][1])].effects]
        ELSE heap[k]]

\* lines 553-556, the dictionary: each dupe is put back under its id
ReAdded(heap, shuffled, dupes) ==
    DictSetAll(shuffled, ById(heap, Concat(Values(dupes))))

\* lines 465-472
m_Masters ==
    /\ pc = "m_masters"
    /\ master_list' = MasterList(tes3list)
    /\ pc' = "m_foodset"
    /\ UNCHANGED <<caller, ilist, tes3list, levclist, foodset, ingrs_by_id, dupe_ingrs,
                   foods_by_id, nonfoods_by_id, shuffled_ingredients, outfile,
                   shuffleVars, codecVars>>

\* lines 477-485
m_FoodSet ==
    /\ pc = "m_foodset"
    /\ foodset' = FoodSet(levclist)
    /\ pc' = "m_unique"
    /\ UNCHANGED <<caller, ilist, tes3list, levclist, master_list, ingrs_by_id,
                   dupe_ingrs, foods_by_id, nonfoods_by_id, shuffled_ingredients,
                   outfile, shuffleVars, codecVars>>

\* lines 489-496
m_Uniquify ==
    /\ pc = "m_unique"
    /\ ingrs_by_id' = UniqueById(ilist)
    /\ pc' = "m_dupes"
    /\ UNCHANGED <<caller, ilist, tes3list, levclist, master_list, foodset,
                   dupe_ingrs, foods_by_id, nonfoods_by_id, shuffled_ingredients,
                   outfile, shuffleVars, codecVars>>

\* lines 505-532
m_StashDupes ==
    /\ pc = "m_dupes"
    /\ dupe_ingrs' = DupeIngrs(ilist, ingrs_by_id)
    /\ ingrs_by_id' = WithoutDupes(ilist, ingrs_by_id)
    /\ pc' = "m_partition"
    /\ UNCHANGED <<caller, ilist, tes3list, levclist, master_list, foodset,
                   foods_by_id, nonfoods_by_id, shuffled_ingredients, outfile,
                   shuffleVars, codecVars>>

\* lines 536-544
m_Partition ==
    /\ pc = "m_partition"
    /\ LET food(e) == IsFood(ilist[e[2]], foodset)
           nonfood(e) == ~IsFood(ilist[e[2]], foodset)
       IN /\ foods_by_id' = SelectSeq(ingrs_by_id, food)
          /\ nonfoods_by_id' = SelectSeq(ingrs_by_id, nonfood)
    /\ pc' = "m_shuffle_foods"
    /\ UNCHANGED <<caller, ilist, tes3list, levclist, master_list, foodset,
                   ingrs_by_id, dupe_ingrs, shuffled_ingredients, outfile,
                   shuffleVars, codecVars>>

\* line 548, the call
m_ShuffleFoods ==
    /\ pc = "m_shuffle_foods"
    /\ ingredients' = foods_by_id
    /\ caller' = "foods"
    /\ pc' = "sh_inert"
    /\ UNCHANGED <<ilist, mainVars, final_ingredients, effect_lists, ingr_array,
                   round, codecVars>>

\* line 548, the assignment of the result, and line 549, the call
m_ShuffleNonfoods ==
    /\ pc = "sh_returned"
    /\ caller = "foods"
    /\ shuffled_ingredients' = final_ingredients
    /\ ingredients' = nonfoods_by_id
    /\ caller' = "nonfoods"
    /\ pc' = "sh_inert"
    /\ UNCHANGED <<ilist, tes3list, levclist, master_list, foodset, ingrs_by_id,
                   dupe_ingrs, foods_by_id, nonfoods_by_id, outfile,
                   final_ingredients, effect_lists, ingr_array, round, codecVars>>

\* line 549, the update with the result
m_Update ==
    /\ pc = "sh_returned"
    /\ caller = "nonfoods"
    /\ shuffled_ingredients' =
          DictSetAll(shuffled_ingredients, final_ingredients)
    /\ pc' = "m_readd"
    /\ UNCHANGED <<caller, ilist, tes3list, levclist, master_list, foodset,
                   ingrs_by_id, dupe_ingrs, foods_by_id, nonfoods_by_id, outfile,
                   shuffleVars, codecVars>>

\* lines 553-556
m_ReAddDupes ==
    /\ pc = "m_readd"
    /\ ilist' = ReAddedHeap(ilist, shuffled_ingredients, dupe_ingrs)
    /\ shuffled_ingredients' = ReAdded(ilist, shuffled_ingredients, dupe_ingrs)
    /\ pc' = "m_write"
    /\ UNCHANGED <<caller, tes3list, levclist, master_list, foodset, ingrs_by_id,
                   dupe_ingrs, foods_by_id, nonfoods_by_id, outfile, shuffleVars,
                   codecVars>>

\* lines 564-583: the records packed, in order, and the header's fields
m_Write ==
    /\ pc = "m_write"
    /\ outfile' =
          [plugins |-> {ilist[e[2]].file : e \in Range(shuffled_ingredients)},
           numrecs |-> Len(shuffled_ingredients),
           masters |-> master_list,
           ingrs |-> [k \in 1..Len(shuffled_ingredients) |->
                         ilist[shuffled_ingredients[k][2]]]]
    /\ pc' = "done"
    /\ UNCHANGED <<caller, ilist, tes3list, levclist, master_list, foodset,
                   ingrs_by_id, dupe_ingrs, foods_by_id, nonfoods_by_id,
                   shuffled_ingredients, shuffleVars, codecVars>>

MainNext ==
    \/ m_Masters
    \/ m_FoodSet
    \/ m_Uniquify
    \/ m_StashDupes
    \/ m_Partition
    \/ m_ShuffleFoods
    \/ m_ShuffleNonfoods
    \/ m_Update
    \/ m_ReAddDupes
    \/ m_Write

(***************************************************************************)
(* The codec on bytes.  A str is the sequence of its ASCII codes, so       *)
(* bytes(s, 'ascii') keeps the codes; tags are the codes of their letters. *)
(***************************************************************************)
NAME == <<78, 65, 77, 69>>
MODL == <<77, 79, 68, 76>>
FNAM == <<70, 78, 65, 77>>
ITEX == <<73, 84, 69, 88>>
SCRI == <<83, 67, 82, 73>>
IRDT == <<73, 82, 68, 84>>
INGR == <<73, 78, 71, 82>>
TES3 == <<84, 69, 83, 51>>
HEDR == <<72, 69, 68, 82>>
MAST == <<77, 65, 83, 84>>
DATA == <<68, 65, 84, 65>>
SCPT == <<83, 67, 80, 84>>

\* bytes(n): n zero bytes
Zeros(n) == [k \in 1..n |-> 0]

\* ba[a:b] for 0 <= a and 0 <= b
Slice(ba, a, b) ==
    IF a >= Min(b, Len(ba)) THEN <<>> ELSE SubSeq(ba, a + 1, Min(b, Len(ba)))

\* byte k (0 the lowest) of the two's complement form of i
ByteOf(i, k) ==
    IF k < 4 THEN (i \div (256 ^ k)) % 256 ELSE IF i < 0 THEN 255 ELSE 0

\* line 25: pack('<l', i), for i in the range of a signed 32-bit integer
packLong(i) == [k \in 1..4 |-> ByteOf(i, k - 1)]

\* line 28: pack('<f', i), for the floats the model uses, named by their text
packFloat(f) ==
    CASE f = "0.0" -> <<0, 0, 0, 0>>
      [] f = "1.0" -> <<0, 0, 128, 63>>
      [] f = "0.5" -> <<0, 0, 0, 63>>

\* line 31: bytes(s, 'ascii')
packString(s) == s

\* lines 33-39
packPaddedString(s, l) ==
    LET bs == packString(s)
    IN IF Len(bs) > l
       THEN Slice(bs, 0, l - 1) \o Zeros(1)
       ELSE bs \o Zeros(l - Len(bs))

\* line 42: ba.find(0)
FindZero(ba) ==
    IF \E k \in 1..Len(ba) : ba[k] = 0
    THEN (CHOOSE k \in 1..Len(ba) : ba[k] = 0 /\ \A j \in 1..(k - 1) : ba[j] # 0) - 1
    ELSE -1

\* lines 41-43: ba[:i] with i = -1 when there is no zero byte, and the bytes
\* that are not ASCII dropped by errors='ignore'
parseString(ba) ==
    LET i == FindZero(ba)
        cut == IF i >= 0 THEN Slice(ba, 0, i) ELSE Slice(ba, 0, Len(ba) - 1)
        ascii(b) == b < 128
    IN SelectSeq(cut, ascii)

\* the value of the bytes ba as an unsigned little-endian number
RECURSIVE Unsigned(_)
Unsigned(ba) == IF ba = <<>> THEN 0 ELSE Head(ba) + 256 * Unsigned(Tail(ba))

\* lines 45-46: int.from_bytes(ba, 'little', signed=True)
parseNum(ba) ==
    IF ba = <<>> THEN 0
    ELSE IF ba[Len(ba)] < 128 THEN Unsigned(ba)
    ELSE (0 - Unsigned([k \in 1..Len(ba) |-> 255 - ba[k]])) - 1

\* lines 48-49: unpack('f', ba), on a little-endian host
parseFloat(ba) ==
    CASE ba = <<0, 0, 0, 0>> -> "0.0"
      [] ba = <<0, 0, 128, 63>> -> "1.0"
      [] ba = <<0, 0, 0, 63>> -> "0.5"
      [] OTHER -> "other"

\* d[key] = val on a Python dict with str keys, as a function
Put(d, key, val) ==
    [x \in (DOMAIN d) \cup {key} |-> IF x = key THEN val ELSE d[x]]

EmptyDict == [x \in {} |-> 0]

\* the skill and attribute blocks read from each other's offsets
effect_tuple_swapped(attr_struct, i) ==
    LET effect == parseNum(Slice(attr_struct, 8 + i * 4, 12 + i * 4))
        skill == parseNum(Slice(attr_struct, 40 + i * 4, 44 + i * 4))
        attribute == parseNum(Slice(attr_struct, 24 + i * 4, 28 + i * 4))
    IN IF effect \in {17, 22, 74, 79, 85} THEN <<effect, -1, attribute>>
       ELSE IF effect \in {21, 26, 78, 83, 89} THEN <<effect, skill, -1>>
       ELSE <<effect, -1, -1>>

\* lines 92-111: the tuple of slot i (from 0) of an IRDT block
effect_tuple(attr_struct, i) ==
    LET effect == parseNum(Slice(attr_struct, 8 + i * 4, 12 + i * 4))
        skill == parseNum(Slice(attr_struct, 24 + i * 4, 28 + i * 4))
        attribute == parseNum(Slice(attr_struct, 40 + i * 4, 44 + i * 4))
    IN IF effect \in {17, 22, 74, 79, 85} THEN <<effect, -1, attribute>>
       ELSE IF effect \in {21, 26, 78, 83, 89} THEN <<effect, skill, -1>>
       ELSE <<effect, -1, -1>>

\* line 119: os.path.basename of a path kept as (directory, file name)
basename(path) == path[2]

\* lines 73-117: the loop over the subrecords, ingrrec so far in acc
RECURSIVE parseSubs(_, _)
parseSubs(srs, acc) ==
    IF srs = <<>> THEN acc
    ELSE LET sr == Head(srs)
             tuples == [i \in 1..4 |-> effect_tuple(sr.data, i - 1)]
             acc2 ==
                 CASE sr.type = NAME -> Put(acc, "id", parseString(sr.data))
                   [] sr.type = MODL -> Put(acc, "model", parseString(sr.data))
                   [] sr.type = FNAM -> Put(acc, "name", parseString(sr.data))
                   [] sr.type = ITEX -> Put(acc, "icon", parseString(sr.data))
                   [] sr.type = SCRI -> Put(acc, "script", parseString(sr.data))
                   [] sr.type = IRDT ->
                        Put(Put(Put(Put(acc,
                            "weight", parseFloat(Slice(sr.data, 0, 4))),
                            "value", parseNum(Slice(sr.data, 4, 8))),
                            "effects_hash", tuples),
                            "effects", tuples)
                   [] OTHER -> acc
         IN parseSubs(Tail(srs), acc2)

\* lines 69-121
parseINGR(rec) ==
    Put(parseSubs(rec.subrecords, EmptyDict), "file", basename(rec.fullpath))

\* lines 151-155
readHeader(ba) ==
    [type |-> Slice(ba, 0, 4), length |-> Unsigned(Slice(ba, 4, 8))]

\* lines 157-163: the subrecord at the head of ba, and the bytes after it
readSubRecord(ba) ==
    LET length == Unsigned(Slice(ba, 4, 8))
        endbyte == 8 + length
    IN <<[type |-> Slice(ba, 0, 4), length |-> length,
          data |-> Slice(ba, 8, endbyte)],
         Slice(ba, endbyte, Len(ba))>>

\* lines 182-185: the subrecords of the payload bytes remains
RECURSIVE subrecordsOf(_)
subrecordsOf(remains) ==
    IF Len(remains) > 0
    THEN LET p == readSubRecord(remains) IN <<p[1]>> \o subrecordsOf(p[2])
    ELSE <<>>

\* lines 202-205
packStringSubRecord(lbl, strval) ==
    LET str_bs == packString(strval) \o Zeros(1)
    IN packString(lbl) \o packLong(Len(str_bs)) \o str_bs

\* lines 207-235, for the sizes 4 and 8 the program uses
packIntSubRecord(lbl, num, numsize) ==
    packString(lbl) \o packLong(numsize) \o [k \in 1..numsize |-> ByteOf(num, k - 1)]

\* lines 252-255
masters_bs(masters) ==
    Concat([k \in 1..Len(masters) |->
               packStringSubRecord(MAST, masters[k][1])
                   \o packIntSubRecord(DATA, masters[k][2], 8)])

Author == <<99, 111, 100, 101, 32, 99, 111, 112, 121, 114, 105, 103, 104, 116, 32,
            50, 48, 50, 48, 44, 32, 106, 109, 101, 108, 101, 115, 107, 121>>

\* lines 237-263
packTES3(desc, numrecs, masters) ==
    LET start_bs == TES3
        headerflags_bs == Zeros(8)
        hedr_bs == HEDR \o packLong(300)
        version_bs == packFloat("1.0")
        ftype_bs == Zeros(4)
        author_bs == packPaddedString(Author, 32)
        desc_bs == packPaddedString(desc, 256)
        numrecs_bs == packLong(numrecs)
        m_bs == masters_bs(masters)
        reclen == Len(hedr_bs) + Len(version_bs) + Len(ftype_bs) + Len(author_bs)
                    + Len(desc_bs) + Len(numrecs_bs) + Len(m_bs)
    IN start_bs \o packLong(reclen) \o headerflags_bs \o hedr_bs \o version_bs
          \o ftype_bs \o author_bs \o desc_bs \o numrecs_bs \o m_bs

\* lines 275-284: irdt_bs
irdt(rec) ==
    IRDT \o packLong(56) \o packFloat(rec.weight) \o packLong(rec.value)
       \o Concat([i \in 1..4 |-> packLong(rec.effects[i][1])])
       \o Concat([i \in 1..4 |-> packLong(rec.effects[i][2])])
       \o Concat([i \in 1..4 |-> packLong(rec.effects[i][3])])

\* the script subrecord left out of the length
reclen_without_script(id_bs, modl_bs, name_bs, irdt_bs, icon_bs, script_bs) ==
    Len(id_bs) + Len(modl_bs) + Len(name_bs) + Len(irdt_bs) + Len(icon_bs)

\* lines 291-292: reclen
ingr_reclen(id_bs, modl_bs, name_bs, irdt_bs, icon_bs, script_bs) ==
    Len(id_bs) + Len(modl_bs) + Len(name_bs) + Len(irdt_bs) + Len(icon_bs)
        + Len(script_bs)

\* lines 266-296
packINGR(rec) ==
    LET start_bs == INGR
        headerflags_bs == Zeros(8)
        id_bs == packStringSubRecord(NAME, rec.id)
        modl_bs == packStringSubRecord(MODL, rec.model)
        name_bs == packStringSubRecord(FNAM, rec.name)
        irdt_bs == irdt(rec)
        icon_bs == packStringSubRecord(ITEX, rec.icon)
        script_bs == IF "script" \in DOMAIN rec
                     THEN packStringSubRecord(SCRI, rec.script)
                     ELSE <<>>
        reclen == ingr_reclen(id_bs, modl_bs, name_bs, irdt_bs, icon_bs, script_bs)
    IN start_bs \o packLong(reclen) \o headerflags_bs \o id_bs \o modl_bs \o name_bs
          \o irdt_bs \o icon_bs \o script_bs

(***************************************************************************)
(* The codec at work: one function applied to one argument, or             *)
(* readRecords run over one file.                                          *)
(***************************************************************************)
MaxStrLen == 3    \* length of the string handed to packPaddedString
MaxPadLen == 4    \* the length l handed to packPaddedString

\* line 166: the file opened, nothing read yet
Opened(path, data) == [name |-> path, data |-> data, pos |-> 0]

\* lines 33-39
c_Pad ==
    /\ pc = "c_pad"
    /\ res' = packPaddedString(arg.s, arg.l)
    /\ pc' = "c_padded"
    /\ UNCHANGED <<caller, ilist, mainVars, shuffleVars, arg, fh, yielded>>

\* lines 237-263
c_PackTES3 ==
    /\ pc = "c_tes3"
    /\ res' = packTES3(arg.desc, arg.numrecs, arg.masters)
    /\ pc' = "c_packed"
    /\ UNCHANGED <<caller, ilist, mainVars, shuffleVars, arg, fh, yielded>>

\* lines 266-296, the record written to a file of its own and the file opened
c_PackINGR ==
    /\ pc = "c_ingr"
    /\ res' = packINGR(arg.rec)
    /\ fh' = Opened(<<"/mods", "a.esp">>, packINGR(arg.rec))
    /\ pc' = "rr_reading"
    /\ UNCHANGED <<caller, ilist, mainVars, shuffleVars, arg, yielded>>

\* lines 167-187, a pass of the loop that yields a record
rr_Yield ==
    /\ pc = "rr_reading"
    /\ LET headerba == Slice(fh.data, fh.pos, fh.pos + 16)
           header == readHeader(headerba)
           remains == Slice(fh.data, fh.pos + 16, fh.pos + 16 + header.length)
       IN /\ Len(headerba) = 16
          /\ yielded' = Append(yielded,
                [type |-> header.type, length |-> header.length,
                 subrecords |-> subrecordsOf(remains), fullpath |-> fh.name])
          /\ fh' = [fh EXCEPT !.pos = fh.pos + 16 + Len(remains)]
    /\ UNCHANGED <<pc, caller, ilist, mainVars, shuffleVars, arg, res>>

\* lines 168-170, the pass that ends the generator
rr_Return ==
    /\ pc = "rr_reading"
    /\ LET headerba == Slice(fh.data, fh.pos, fh.pos + 16)
       IN /\ Len(headerba) < 16
          /\ fh' = [fh EXCEPT !.pos = fh.pos + Len(headerba)]
    /\ pc' = "rr_ended"
    /\ UNCHANGED <<caller, ilist, mainVars, shuffleVars, arg, res, yielded>>

\* line 377 (as line 489): parseINGR of each INGR record read
c_ParseINGR ==
    /\ pc = "rr_ended"
    /\ arg.kind = "ingr"
    /\ LET isINGR(r) == r.type = INGR
           recs == SelectSeq(yielded, isINGR)
       IN res' = [k \in 1..Len(recs) |-> parseINGR(recs[k])]
    /\ pc' = "c_parsed"
    /\ UNCHANGED <<caller, ilist, mainVars, shuffleVars, arg, fh, yielded>>

CodecNext ==
    \/ c_Pad
    \/ c_PackTES3
    \/ c_PackINGR
    \/ rr_Yield
    \/ rr_Return
    \/ c_ParseINGR

\* Strings (ASCII codes) handed to packPaddedString: over "A", "b" and NUL
PadChars == {65, 98, 0}

\* (id, model, name, icon) of the ingredients handed to packINGR:
\* ("ab", "m", "N x", ""), ("x", "ab", "", "i.t") and, with a NUL in the id,
\* ("a\0b", "m", "n", "i")
StringChoices ==
    { <<<<97, 98>>, <<109>>, <<78, 32, 120>>, <<>>>>,
      <<<<120>>, <<97, 98>>, <<>>, <<105, 46, 116>>>>,
      <<<<97, 0, 98>>, <<109>>, <<110>>, <<105>>>> }

\* script: none (<<>>), or one of "", "s", "s\0t"
ScriptChoices == {<<>>, <<<<>>>>, <<<<115>>>>, <<<<115, 0, 116>>>>}

ValueChoices == {0, -1, 300, 2147483647, -2147483647 - 1}

WeightChoices == {"0.0", "1.0", "0.5"}

\* effects as parseINGR leaves them, effects with skill and attribute set on
\* every slot, and effects at the ends of the ranges
EffectChoices ==
    { <<<<5, -1, -1>>, <<17, -1, 2>>, <<21, 3, -1>>, <<-1, -1, -1>>>>,
      <<<<5, 3, 2>>, <<17, 3, 2>>, <<21, 3, 2>>, <<-1, 0, 0>>>>,
      <<<<0, -1, -1>>, <<85, -1, 7>>, <<89, 26, -1>>, <<2147483647, -1, -1>>>> }

\* the dict handed to packINGR
IngrArg(strs, script, weight, value, effects) ==
    LET base == [id |-> strs[1], model |-> strs[2], name |-> strs[3],
                 icon |-> strs[4], weight |-> weight, value |-> value,
                 effects |-> effects]
    IN IF script = <<>> THEN base ELSE Put(base, "script", script[1])

\* desc of len(desc) = n, all "A"
DescOf(n) == [k \in 1..n |-> 65]

DescLengths == {0, 1, 255, 256, 257}

\* masters as (file name, size): "M.esm" and "N"
MasterArgs ==
    { <<>>, <<<<<<77, 46, 101, 115, 109>>, 10>>>>,
      <<<<<<77, 46, 101, 115, 109>>, 79837557>>, <<<<78>>, -1>>>> }

\* a file of two records: SCPT with NAME "a", INGR with NAME "b" and MODL "m"
TwoRecords ==
    LET p1 == packStringSubRecord(NAME, <<97>>)
        p2 == packStringSubRecord(NAME, <<98>>) \o packStringSubRecord(MODL, <<109>>)
    IN SCPT \o packLong(Len(p1)) \o Zeros(8) \o p1
          \o INGR \o packLong(Len(p2)) \o Zeros(8) \o p2

InitPad ==
    /\ pc = "c_pad"
    /\ \E s \in SeqsUpTo(PadChars, MaxStrLen) : \E l \in 1..MaxPadLen :
          arg = [kind |-> "pad", s |-> s, l |-> l]
    /\ fh = <<>>

InitINGR ==
    /\ pc = "c_ingr"
    /\ \E strs \in StringChoices : \E script \in ScriptChoices :
          \E weight \in WeightChoices : \E value \in ValueChoices :
             \E effects \in EffectChoices :
                arg = [kind |-> "ingr",
                       rec |-> IngrArg(strs, script, weight, value, effects)]
    /\ fh = <<>>

InitTES3 ==
    /\ pc = "c_tes3"
    /\ \E n \in DescLengths : \E numrecs \in {0, 1, 300} : \E masters \in MasterArgs :
          arg = [kind |-> "tes3", desc |-> DescOf(n), numrecs |-> numrecs,
                 masters |-> masters]
    /\ fh = <<>>

\* the file of two records, whole or cut short anywhere
InitFile ==
    /\ pc = "rr_reading"
    /\ arg = [kind |-> "file"]
    /\ \E n \in 0..Len(TwoRecords) :
          fh = Opened(<<"/mods", "b.esp">>, Slice(TwoRecords, 0, n))

CodecInit ==
    /\ InitPad \/ InitINGR \/ InitTES3 \/ InitFile
    /\ caller = "codec"
    /\ ilist = <<>>
    /\ res = <<>>
    /\ yielded = <<>>
    /\ NullMain
    /\ NullShuffle

SpecCodec == CodecInit /\ [][CodecNext]_vars

(***************************************************************************)
(* The inputs of main: the parsed records of the mods, in load order.      *)
(* Three families: INGR records drawn freely over one food list and one    *)
(* header; LEVC records drawn freely over five ingredients; TES3 records   *)
(* drawn freely over one ingredient.                                       *)
(***************************************************************************)
idX == <<"x">>
idY == <<"y">>
idZ == <<"z">>
idfood == <<"f", "o", "o", "d">>
idFood == <<"a", "F", "o", "o", "d">>
idFOOD == <<"F", "O", "O", "D">>

pInert == <<NoEffect, NoEffect, NoEffect, NoEffect>>
pA == <<E5, NoEffect, NoEffect, NoEffect>>
pB == <<NoEffect, E7, NoEffect, NoEffect>>
pC == <<E17, E21, NoEffect, NoEffect>>

\* (id, model, effects) of the INGR records a mod may hold
RecChoices ==
    { <<idX, "m1.nif", pA>>, <<idY, "m1.nif", pA>>, <<idfood, "m1.nif", pA>>,
      <<idX, "m2.nif", pB>>, <<idfood, "m2.nif", pB>>, <<idZ, "m2.nif", pC>>,
      <<idZ, "m1.nif", pInert>>, <<idY, "m2.nif", pC>> }

FileNames == <<"a.esp", "b.esp", "c.esp", "d.esp", "e.esp">>

\* The k-th INGR record read, from the k-th mod: name, icon, weight and value
\* differ from record to record, and every other record has a script.
RecordAt(k, c) ==
    IngrRec(c[1], c[2], <<"n", Letters[k]>>, <<"i", Letters[k]>>,
            IF k % 2 = 0 THEN <<>> ELSE <<"s", Letters[k]>>,
            Letters[k], 10 * k, c[3], FileNames[k])

ListNames == {sfood, <<"a", "F", "o", "o", "d">>, <<"F", "O", "O", "D">>, <<"m", "i", "s", "c">>}

ItemLists == {<<>>, <<idX>>, <<idY, idX>>, <<idZ>>}

MasterChoices ==
    { <<>>, <<<<"M.esm", 10>>>>, <<<<"M.esm", 20>>>>, <<<<"M.esm", 10>>, <<"N.esm", 5>>>>,
      <<<<"N.esm", 7>>, <<"M.esm", 20>>>>, <<<<"M.esm", 10>>, <<"M.esm", 30>>>> }

FixedLevc == <<[name |-> <<"F", "o", "o", "d", "s">>, items |-> <<idY>>]>>

FixedTes3 == <<<<<<"M.esm", 10>>>>>>

FixedIngrs ==
    <<RecordAt(1, <<idX, "m1.nif", pA>>), RecordAt(2, <<idfood, "m2.nif", pInert>>),
      RecordAt(3, <<idFood, "m3.nif", pInert>>), RecordAt(4, <<idFOOD, "m4.nif", pB>>),
      RecordAt(5, <<idY, "m5.nif", pInert>>)>>

InitRecords ==
    /\ \E n \in 1..MaxRecs : \E cs \in [1..n -> RecChoices] :
          ilist = [k \in 1..n |-> RecordAt(k, cs[k])]
    /\ levclist = FixedLevc
    /\ tes3list = FixedTes3

InitLists ==
    /\ ilist = FixedIngrs
    /\ \E n \in 0..MaxLists : \E ns \in [1..n -> ListNames] : \E its \in [1..n -> ItemLists] :
          levclist = [k \in 1..n |-> [name |-> ns[k], items |-> its[k]]]
    /\ tes3list = FixedTes3

InitHeaders ==
    /\ ilist = <<RecordAt(1, <<idX, "m1.nif", pA>>)>>
    /\ levclist = FixedLevc
    /\ \E n \in 0..MaxHdrs : tes3list \in [1..n -> MasterChoices]

MainInit ==
    /\ pc = "m_masters"
    /\ caller = "main"
    /\ InitRecords \/ InitLists \/ InitHeaders
    /\ master_list = <<>>
    /\ foodset = {}
    /\ ingrs_by_id = <<>>
    /\ dupe_ingrs = <<>>
    /\ foods_by_id = <<>>
    /\ nonfoods_by_id = <<>>
    /\ shuffled_ingredients = <<>>
    /\ outfile = <<>>
    /\ NullShuffle
    /\ NullCodec

Next == MainNext \/ ShuffleNext

Spec == MainInit /\ [][Next]_vars

(***************************************************************************)
(* Properties of one call of shuffle_ingredients (SpecShuffle).  The map   *)
(* on entry is the whole heap, and effects_hash keeps each ingredient's    *)
(* effects on entry.                                                       *)
(***************************************************************************)
ActiveBefore(i) == {k \in DOMAIN ilist : ilist[k].effects_hash[i][1] > 0}

ActiveAfter(i) ==
    {e \in Range(final_ingredients) : ilist[e[2]].effects[i][1] > 0}

\* C1: when the call returns, each slot index has as many ingredients with an
\* active effect (effect_id > 0) in the returned map as it had in the input map.
C1_EffectCountConserved ==
    pc = "sh_returned" =>
        \A i \in Slots : Cardinality(ActiveAfter(i)) = Cardinality(ActiveBefore(i))

AfterInertRemoval == pc \in {"sh_pools", "sh_round", "sh_returned", "crashed"}

\* The ingredient k is in final_ingredients under its id with the effects it
\* came with, and is in neither the argument dictionary nor ingr_array.
SetAsideUntouched(k) ==
    /\ HasKey(final_ingredients, ilist[k].id)
    /\ Lookup(final_ingredients, ilist[k].id) = k
    /\ ilist[k].effects = ilist[k].effects_hash
    /\ ~HasKey(ingredients, ilist[k].id)
    /\ k \notin Range(ingr_array)

\* C3 as claimed: from the end of inert removal on, every ingredient whose four
\* slots all had effect_id <= 0 on entry is in the result with its effects
\* unchanged and is not part of the working set.
C3_InertExclusionAsClaimed ==
    AfterInertRemoval =>
        \A k \in DOMAIN ilist :
            (\A i \in Slots : ilist[k].effects_hash[i][1] <= 0) => SetAsideUntouched(k)

\* C3 amended: from the end of inert removal on, every ingredient whose four
\* slots all had effect_id < 0 on entry is in the result with its effects
\* unchanged and is not part of the working set.
C3_InertExclusion ==
    AfterInertRemoval =>
        \A k \in DOMAIN ilist :
            (\A i \in Slots : ilist[k].effects_hash[i][1] < 0) => SetAsideUntouched(k)

\* A call has returned that held an ingredient with no effect and changed the
\* effects of another one.
C3_Witness ==
    /\ pc = "sh_returned"
    /\ \E k \in DOMAIN ilist : \A i \in Slots : ilist[k].effects_hash[i][1] < 0
    /\ \E k \in DOMAIN ilist : ilist[k].effects # ilist[k].effects_hash

(***************************************************************************)
(* Properties of main (Spec).                                              *)
(***************************************************************************)
\* C2: in what main writes, two ingredients with the same model and the same
\* effects before the shuffle have the same four effect slots.
C2_DuplicateConsistency ==
    pc = "done" =>
        \A a, b \in Range(outfile.ingrs) :
            (a.model = b.model /\ a.effects_hash = b.effects_hash)
                => a.effects = b.effects

\* main has written two ingredients of one duplicate group whose effects the
\* shuffle changed.
C2_Witness ==
    /\ pc = "done"
    /\ \E a, b \in Range(outfile.ingrs) :
          /\ a.id # b.id
          /\ a.model = b.model
          /\ a.effects_hash = b.effects_hash
          /\ a.effects # a.effects_hash

Lower(s) ==
    [k \in 1..Len(s) |->
        CASE s[k] = "F" -> "f" [] s[k] = "O" -> "o" [] s[k] = "D" -> "d"
          [] OTHER -> s[k]]

AfterPartition == pc = "m_shuffle_foods"

InFoods(e) == e \in Range(foods_by_id)

InNonfoods(e) == e \in Range(nonfoods_by_id)

\* C6 as claimed: an ingredient is put in foods_by_id exactly when its id is an
\* item of a leveled list whose name holds "food" in any letter case, or its id
\* holds "food" in any letter case; every other one is put in nonfoods_by_id.
C6_FoodClassificationAsClaimed ==
    AfterPartition =>
        \A e \in Range(ingrs_by_id) :
            LET id == e[1]
                marked == \/ \E k \in 1..Len(levclist) :
                                /\ Contains(Lower(levclist[k].name), sfood)
                                /\ id \in Range(levclist[k].items)
                          \/ Contains(Lower(id), sfood)
            IN /\ InFoods(e) <=> marked
               /\ InNonfoods(e) <=> ~marked

\* C6 amended: an ingredient is put in foods_by_id exactly when its id is an
\* item of a leveled list whose name holds "food" or "Food" spelled so, or its
\* id holds "food" or "Food" spelled so; every other one is put in
\* nonfoods_by_id.
C6_FoodClassification ==
    AfterPartition =>
        \A e \in Range(ingrs_by_id) :
            LET id == e[1]
                marked == \/ \E k \in 1..Len(levclist) :
                                /\ \/ Contains(levclist[k].name, <<"f", "o", "o", "d">>)
                                   \/ Contains(levclist[k].name, <<"F", "o", "o", "d">>)
                                /\ id \in Range(levclist[k].items)
                          \/ Contains(id, <<"f", "o", "o", "d">>)
                          \/ Contains(id, <<"F", "o", "o", "d">>)
            IN /\ InFoods(e) <=> marked
               /\ InNonfoods(e) <=> ~marked

\* The partition is made with a food by leveled list alone, a food by a "Food"
\* in its id, and a non-food whose id holds "FOOD".
C6_Witness ==
    /\ AfterPartition
    /\ \E e \in Range(foods_by_id) :
          ~Contains(Lower(e[1]), sfood) /\ e[1] \in foodset
    /\ \E e \in Range(foods_by_id) : Contains(e[1], sFood)
    /\ \E e \in Range(nonfoods_by_id) : Contains(Lower(e[1]), sfood)

Declared == Concat(tes3list)

AfterMasters == pc # "m_masters"

\* The size given by the first, and by the last, declaration of a master name
\* over the input headers in reading order.
FirstDecl(name) ==
    Declared[CHOOSE k \in 1..Len(Declared) :
                /\ Declared[k][1] = name
                /\ \A j \in 1..(k - 1) : Declared[j][1] # name][2]

LastDecl(name) ==
    Declared[CHOOSE k \in 1..Len(Declared) :
                /\ Declared[k][1] = name
                /\ \A j \in (k + 1)..Len(Declared) : Declared[j][1] # name][2]

EachMasterOnce(ml) ==
    /\ \A d \in Range(Declared) :
          Cardinality({k \in 1..Len(ml) : ml[k][1] = d[1]}) = 1
    /\ \A k \in 1..Len(ml) : \E d \in Range(Declared) : d[1] = ml[k][1]

\* C7 as claimed: master_list, and the master list main writes, hold every
\* master named by an input header exactly once, with the size of the first
\* header that declared it.
C7_MasterUnionFirstWins ==
    /\ AfterMasters =>
          /\ EachMasterOnce(master_list)
          /\ \A k \in 1..Len(master_list) :
                master_list[k][2] = FirstDecl(master_list[k][1])
    /\ pc = "done" => outfile.masters = master_list

\* C7 amended: master_list, and the master list main writes, hold every master
\* named by an input header exactly once, with the size of the last declaration
\* of it in file order.
C7_MasterUnionLastWins ==
    /\ AfterMasters =>
          /\ EachMasterOnce(master_list)
          /\ \A k \in 1..Len(master_list) :
                master_list[k][2] = LastDecl(master_list[k][1])
    /\ pc = "done" => outfile.masters = master_list

\* main has written its file from two headers that declare one master with two
\* sizes.
C7_Witness ==
    /\ pc = "done"
    /\ \E h1, h2 \in 1..Len(tes3list) : \E a \in Range(tes3list[h1]) :
          \E b \in Range(tes3list[h2]) : h1 < h2 /\ a[1] = b[1] /\ a[2] # b[2]

Superseded(k) == \E j \in (k + 1)..Len(ilist) : ilist[j].id = ilist[k].id

LastOf(id) ==
    CHOOSE k \in 1..Len(ilist) : ilist[k].id = id /\ ~Superseded(k)

\* Every heap object main and shuffle_ingredients hold after the uniquifying.
HeldObjects ==
    Range(Values(ingrs_by_id)) \cup Range(Concat(Values(dupe_ingrs)))
        \cup Range(Values(foods_by_id)) \cup Range(Values(nonfoods_by_id))
        \cup Range(Values(ingredients)) \cup Range(ingr_array)
        \cup Range(Values(final_ingredients))
        \cup Range(Values(shuffled_ingredients))

SameButEffects(a, b) ==
    /\ a.id = b.id
    /\ a.model = b.model
    /\ a.name = b.name
    /\ a.icon = b.icon
    /\ a.script = b.script
    /\ a.weight = b.weight
    /\ a.value = b.value
    /\ a.file = b.file
    /\ a.effects_hash = b.effects_hash

\* C8: of the records with one id, the one read last is the one held from the
\* uniquifying on; every pooled effect is a slot value of such a record; and
\* main writes each id once, with the fields of the record read last.
C8_LastWriterWins ==
    /\ pc \notin {"m_masters", "m_foodset", "m_unique"} =>
          /\ \A k \in HeldObjects : ~Superseded(k)
          /\ \A e \in Range(ingrs_by_id) : e[2] = LastOf(e[1])
    /\ \A i \in DOMAIN effect_lists : \A v \in Range(effect_lists[i]) :
          \E k \in DOMAIN ilist : ~Superseded(k) /\ ilist[k].effects_hash[i] = v
    /\ pc = "done" =>
          /\ \A k \in DOMAIN ilist :
                Cardinality({j \in 1..Len(outfile.ingrs) :
                                outfile.ingrs[j].id = ilist[k].id}) = 1
          /\ \A r \in Range(outfile.ingrs) : SameButEffects(r, ilist[LastOf(r.id)])

\* main has written its file after reading two records of one id that differ
\* in model and effects.
C8_Witness ==
    /\ pc = "done"
    /\ \E j, k \in DOMAIN ilist :
          /\ j < k
          /\ ilist[j].id = ilist[k].id
          /\ ilist[j].model # ilist[k].model
          /\ ilist[j].effects_hash # ilist[k].effects_hash
    /\ \E k \in DOMAIN ilist : ilist[k].effects # ilist[k].effects_hash

(***************************************************************************)
(* Properties of the codec (SpecCodec).                                    *)
(***************************************************************************)
IsIngrRun == arg # <<>> /\ arg.kind = "ingr"

NoNul(str) == \A k \in 1..Len(str) : str[k] # 0

\* The ingredient x has no NUL character in a string field.
NulFree(x) ==
    /\ NoNul(x.id)
    /\ NoNul(x.model)
    /\ NoNul(x.name)
    /\ NoNul(x.icon)
    /\ "script" \in DOMAIN x => NoNul(x.script)

\* The parsed record y has the id, model, name, icon, script and value of x.
SameFields(x, y) ==
    /\ y.id = x.id
    /\ y.model = x.model
    /\ y.name = x.name
    /\ y.icon = x.icon
    /\ ("script" \in DOMAIN y) <=> ("script" \in DOMAIN x)
    /\ "script" \in DOMAIN x => y.script = x.script
    /\ y.value = x.value

\* C4 as claimed: packINGR(x), framed by readRecords and parsed by parseINGR,
\* gives back the id, model, name, icon, script and value of x and its four
\* (effect, skill, attribute) triples.
C4_RoundTripAsClaimed ==
    (IsIngrRun /\ pc = "c_parsed") =>
        /\ Len(res) = 1
        /\ SameFields(arg.rec, res[1])
        /\ res[1].effects = arg.rec.effects

\* The triple t with the skill kept only for the effects that use a skill and
\* the attribute kept only for those that use an attribute.
DeadDataDropped(t) ==
    <<t[1],
      IF t[1] \in {21, 26, 78, 83, 89} THEN t[2] ELSE -1,
      IF t[1] \in {17, 22, 74, 79, 85} THEN t[3] ELSE -1>>

\* C4 amended: for x with no NUL character in its strings, the round trip gives
\* back the id, model, name, icon, script and value of x, and of each triple
\* the effect, the skill if the effect is one of 21, 26, 78, 83, 89 and else
\* -1, the attribute if the effect is one of 17, 22, 74, 79, 85 and else -1.
C4_RoundTrip ==
    (IsIngrRun /\ pc = "c_parsed" /\ NulFree(arg.rec)) =>
        /\ Len(res) = 1
        /\ SameFields(arg.rec, res[1])
        /\ res[1].effects = [i \in 1..4 |-> DeadDataDropped(arg.rec.effects[i])]

\* An ingredient with a script, a negative value and a skill and an attribute
\* on every slot has made the round trip.
C4_Witness ==
    /\ IsIngrRun
    /\ pc = "c_parsed"
    /\ NulFree(arg.rec)
    /\ "script" \in DOMAIN arg.rec
    /\ arg.rec.value < 0
    /\ \E i \in 1..4 : arg.rec.effects[i] # DeadDataDropped(arg.rec.effects[i])
    /\ \E i \in 1..4 : arg.rec.effects[i][1] = 17

\* C5: packPaddedString(s, l) is l bytes long; all its bytes after the first
\* len(s) are zero when len(s) < l; its last byte is zero when len(s) >= l.
C5_PaddingCorrect ==
    pc = "c_padded" =>
        /\ Len(res) = arg.l
        /\ Len(arg.s) < arg.l => \A k \in (Len(arg.s) + 1)..arg.l : res[k] = 0
        /\ Len(arg.s) >= arg.l => res[arg.l] = 0

RecordBytes(k) == SeqSum([j \in 1..k |-> 16 + yielded[j].length])

\* C9: readRecords yields a record only when the file holds its 16 header
\* bytes and all the payload bytes its header declares, and ends normally only
\* when the file ends where a record would start; a file cut short anywhere
\* else does not end normally.
C9_TruncationIsAnError ==
    pc \in {"rr_reading", "rr_ended"} =>
        /\ \A k \in 1..Len(yielded) : RecordBytes(k) <= Len(fh.data)
        /\ pc = "rr_ended" => RecordBytes(Len(yielded)) = Len(fh.data)

\* Whether the payload is subfields back to back: each with its 8 header
\* bytes and all the data bytes it declares, the last one ending the payload.
RECURSIVE BackToBack(_)
BackToBack(payload) ==
    \/ payload = <<>>
    \/ /\ Len(payload) >= 8
       /\ 8 + Unsigned(SubSeq(payload, 5, 8)) <= Len(payload)
       /\ BackToBack(SubSeq(payload, 9 + Unsigned(SubSeq(payload, 5, 8)), Len(payload)))

\* The (tag, declared length) of the subfields of such a payload.
RECURSIVE FieldsOf(_)
FieldsOf(payload) ==
    IF payload = <<>> THEN <<>>
    ELSE LET n == Unsigned(SubSeq(payload, 5, 8))
         IN <<[tag |-> SubSeq(payload, 1, 4), len |-> n]>>
               \o FieldsOf(SubSeq(payload, 9 + n, Len(payload)))

FieldsIn(b) == FieldsOf(SubSeq(b, 17, Len(b)))

\* The record bytes b: the tag, a length prefix equal to the number of bytes
\* after the 16-byte header, and a payload that is back-to-back subfields
\* whose 8 + length sum to the prefix.
WellFramed(b, tag) ==
    /\ Len(b) >= 16
    /\ SubSeq(b, 1, 4) = tag
    /\ Unsigned(SubSeq(b, 5, 8)) = Len(b) - 16
    /\ BackToBack(SubSeq(b, 17, Len(b)))
    /\ SeqSum([k \in 1..Len(FieldsIn(b)) |-> 8 + FieldsIn(b)[k].len]) = Len(b) - 16

\* C10: what packINGR and packTES3 return is well framed; an INGR record is
\* NAME, MODL, FNAM, IRDT of 56 bytes, ITEX and SCRI if there is a script; a
\* TES3 record is HEDR of 300 bytes, then MAST and DATA of 8 bytes per master.
C10_EncoderFraming ==
    /\ (IsIngrRun /\ pc # "c_ingr") =>
          /\ WellFramed(fh.data, INGR)
          /\ LET fields == FieldsIn(fh.data)
             IN /\ [k \in 1..Len(fields) |-> fields[k].tag] =
                      <<NAME, MODL, FNAM, IRDT, ITEX>>
                          \o (IF "script" \in DOMAIN arg.rec THEN <<SCRI>> ELSE <<>>)
                /\ fields[4].len = 56
    /\ pc = "c_packed" =>
          /\ WellFramed(res, TES3)
          /\ LET fields == FieldsIn(res)
             IN /\ Len(fields) = 1 + 2 * Len(arg.masters)
                /\ fields[1] = [tag |-> HEDR, len |-> 300]
                /\ \A k \in 1..Len(arg.masters) :
                      /\ fields[2 * k].tag = MAST
                      /\ fields[2 * k].len = Len(arg.masters[k][1]) + 1
                      /\ fields[2 * k + 1] = [tag |-> DATA, len |-> 8]

\* packINGR has packed an ingredient with a script that is not empty.
C10_Witness ==
    /\ IsIngrRun
    /\ pc = "rr_reading"
    /\ "script" \in DOMAIN arg.rec
    /\ arg.rec.script # <<>>
    /\ fh.pos = 0


(***************************************************************************)
(* Further properties of one call of shuffle_ingredients (SpecShuffle).    *)
(***************************************************************************)
RoundStarts == pc = "sh_round" /\ round < 4

\* C11: when a round i starts, pool i is no longer than the working array, and
\* no call ends in an IndexError: every call returns.
C11_PoolNeverOutruns ==
    /\ RoundStarts => Len(effect_lists[round + 1]) <= Len(ingr_array)
    /\ pc # "crashed"

InFinal(k) ==
    /\ HasKey(final_ingredients, ilist[k].id)
    /\ Lookup(final_ingredients, ilist[k].id) = k

InWorking(k) ==
    IF pc = "sh_pools"
    THEN HasKey(ingredients, ilist[k].id) /\ Lookup(ingredients, ilist[k].id) = k
    ELSE Cardinality({j \in 1..Len(ingr_array) : ingr_array[j] = k}) = 1

NoKeyTwice(d) == \A j, k \in 1..Len(d) : d[j][1] = d[k][1] => j = k

\* At the end of inert removal, and before and after each round, every
\* ingredient is in the working set or in final_ingredients, never in both.
InExactlyOne ==
    pc \in {"sh_pools", "sh_round"} =>
        /\ \A k \in DOMAIN ilist : InFinal(k) # InWorking(k)
        /\ NoKeyTwice(final_ingredients)
        /\ Len(ingr_array) = Cardinality(Range(ingr_array))

\* The returned map has the keys of the map on entry, each once, each bound to
\* the ingredient that came under it.
SameKeysOnReturn ==
    pc = "sh_returned" =>
        /\ Range(Keys(final_ingredients)) = {ilist[k].id : k \in DOMAIN ilist}
        /\ NoKeyTwice(final_ingredients)
        /\ \A k \in DOMAIN ilist : InFinal(k)

\* A step changes nothing of an ingredient but its effects.
OnlyEffectsChange ==
    /\ DOMAIN ilist' = DOMAIN ilist
    /\ \A k \in DOMAIN ilist :
          ilist'[k] = [ilist[k] EXCEPT !.effects = ilist'[k].effects]

\* C13: at the end of inert removal and of each round every ingredient of the
\* input map is in exactly one of the working set and final_ingredients; when
\* the call returns, the returned map has the key set of the input map; and no
\* step changes an ingredient's id, model, name, icon, script, weight, value
\* or file.
C13_NoIngredientLost ==
    /\ [](InExactlyOne /\ SameKeysOnReturn)
    /\ [][OnlyEffectsChange]_vars

\* A call has returned in which one ingredient was set aside as inert, one
\* that had an effect left the working array in a round, and one got a new
\* effect.
C13_Witness ==
    /\ pc = "sh_returned"
    /\ \E k \in DOMAIN ilist : IsInert([effects |-> ilist[k].effects_hash])
    /\ \E k \in DOMAIN ilist :
          /\ ~IsInert([effects |-> ilist[k].effects_hash])
          /\ k \notin Range(ingr_array)
    /\ \E k \in DOMAIN ilist : ilist[k].effects # ilist[k].effects_hash

(***************************************************************************)
(* Further properties of main (Spec).                                      *)
(***************************************************************************)
Written == Range(outfile.ingrs)

SamePartition(a, b) == IsFood(a, foodset) = IsFood(b, foodset)

\* C12: in what main writes, each slot value of each ingredient is the value
\* that slot had before the shuffle in an ingredient of the same partition,
\* food or not by the ingredient's own id; ingredients that were held aside as
\* duplicates included.
C12_PartitionIsolation ==
    pc = "done" =>
        \A a \in Written : \A i \in Slots :
            \E b \in Written : SamePartition(a, b) /\ b.effects_hash[i] = a.effects[i]

=============================================================================
